---- MODULE Spec2Model ----
(***************************************************************************)
(* Event-sourced core of the library service (server crate):               *)
(*   EventArchive (persistence.rs), EventBus / CommandDispatcher /         *)
(*   QueryHandler / Application / WriteModel (core.rs) and the IndexSet     *)
(*   read model (core/model/query.rs).                                      *)
(*                                                                         *)
(* Identifiers are UUIDs in the code; here they are small naturals.        *)
(* Aggregate ids are minted as the least unused number (only freshness     *)
(* matters for them); event ids are drawn nondeterministically from the    *)
(* unused ones, because the `events` partition is iterated in key order.   *)
(* The wall-clock `when` of a record is its position in `log`.             *)
(***************************************************************************)
EXTENDS Naturals, Sequences, FiniteSets, TLC

\* ------------------------------------------------------------------ bounds

\* Cap on the number of records ever persisted (guards of accept).
MaxEvents == 2
\* The broadcast channel's capacity, scaled down from broadcast::channel(100)
\* so that a lagging receiver is reachable.
ChannelCapacity == 1

Callers == {"c1", "c2"}
Monikers == {"m1", "m2"}
Whens == {0, 1}              \* 0 stands for `when: None`
AuthorInputs == {1, 2}       \* `author` of an AddBook command
ReaderInputs == {1}          \* `reader_id` of an AddReadBook command
BookInputs == {2}            \* `book_id` of an AddReadBook command
EventIds == 1..MaxEvents     \* keys of the `events` partition

VARIABLES
    log,            \* `events` partition: the stored records, in insertion order
    sent,           \* every value sent on the broadcast channel `tx` in this process
    wmPos,          \* read cursor of the dispatcher's subscription
    rmPos,          \* read cursor of the query handler's subscription
    wmLoop,         \* WriteModel apply task: "none" | "running" | "received" | "exited"
    rmLoop,         \* ReadModel apply task:  "none" | "running" | "received" | "exited"
    write_model,    \* CommandDispatcher.write_model
    read_model,     \* QueryHandler.read_model
    cur,            \* per caller: position inside submit_command
    store_lock,     \* EventBus.event_store mutex: "free" | caller | "replay"
    phase,          \* "new" | "replaying" | "serving" | "stopping" | "failed"
    journal,        \* the vector journal() returned to replay_journal
    replayPos,      \* number of journal records replay_journal has sent
    aggregates,     \* `aggregates` partition: aggregate id -> event id
    probe,          \* argument and result of a store or codec call under test
    wm_readers      \* callers holding a read guard of CommandDispatcher.write_model

vars == <<log, sent, wmPos, rmPos, wmLoop, rmLoop, write_model, read_model,
          cur, store_lock, phase, journal, replayPos, aggregates, probe,
          wm_readers>>

\* ------------------------------------------------------------------ maps

EmptyMap == [x \in {} |-> 0]

Put(f, k, v) == IF k \in DOMAIN f THEN [f EXCEPT ![k] = v] ELSE f @@ (k :> v)

\* HashMap<K, Vec<V>>: entry(k).or_default().push(v)
PushEntry(f, k, v) ==
    Put(f, k, (IF k \in DOMAIN f THEN f[k] ELSE <<>>) \o <<v>>)

\* HashMap<K, HashSet<V>>: entry(k).or_default().insert(v)
InsertEntry(f, k, v) ==
    Put(f, k, (IF k \in DOMAIN f THEN f[k] ELSE {}) \cup {v})

RECURSIVE Count(_, _)
Count(s, x) ==
    IF s = <<>> THEN 0
    ELSE (IF Head(s) = x THEN 1 ELSE 0) + Count(Tail(s), x)

IsPrefix(s, t) ==
    /\ Len(s) <= Len(t)
    /\ \A i \in 1..Len(s) : s[i] = t[i]

\* ------------------------------------------------------------------ events

\* A String is the sequence of its characters, so that the text index can
\* split it: the author name "Al", the ISBN "9-0" and the title "To B".
AuthorInfo == [name |-> <<"A", "l">>]
BookInfo(author) ==
    [isbn |-> <<"9", "-", "0">>, title |-> <<"T", "o", " ", "B">>, author |-> author]
ReaderInfo(m) == [name |-> "N", unique_moniker |-> m]
BookReadInfo(r, b, w) == [reader_id |-> r, book_id |-> b, when |-> w]

Event(type, id, info) == [type |-> type, id |-> id, info |-> info]

\* KeywordTarget::Book(id) and KeywordTarget::Author(id).
KeywordTarget(kind, id) == [kind |-> kind, id |-> id]

\* KeywordTarget::aggregate_id: the id inside the target, without its variant.
target_aggregate_id(target) == target.id

\* Event::KeywordAdded(target, keyword): the target is in the place of the
\* entity id of the other variants.
KeywordAdded(target, keyword) == Event("KeywordAdded", target, keyword)

Name(e) ==
    CASE e.type = "BookAdded" -> "book-added"
      [] e.type = "AuthorAdded" -> "author-added"
      [] e.type = "ReaderAdded" -> "reader-added"
      [] e.type = "BookRead" -> "book-read"
      [] e.type = "KeywordAdded" -> "keyword-added"

external_representation(e, event_id) ==
    IF e.type = "KeywordAdded"
    THEN [id |-> event_id, aggregate_id |-> target_aggregate_id(e.id),
          what |-> Name(e), data |-> e.info]
    ELSE [id |-> event_id, aggregate_id |-> e.id, what |-> Name(e), data |-> e.info]

\* A decoder that reads any unknown record as an AuthorAdded.
from_external_representation_lenient(x) == Event("AuthorAdded", x.aggregate_id, AuthorInfo)

from_external_representation(x) ==
    CASE x.what = "author-added" -> Event("AuthorAdded", x.aggregate_id, x.data)
      [] x.what = "book-added" -> Event("BookAdded", x.aggregate_id, x.data)
      [] x.what = "reader-added" -> Event("ReaderAdded", x.aggregate_id, x.data)
      [] x.what = "book-read" -> Event("BookRead", x.aggregate_id, x.data)
      [] OTHER -> [type |-> "UnknownEventType", id |-> 0, info |-> x.what]

IsError(e) == e.type = "UnknownEventType"

\* ------------------------------------------------------------------ store

\* A persist that reports success without storing the record.
insert_lost(l, rec) == l

\* EventArchiveInner::insert: the record is stored under its event id.
insert(l, rec) == Append(l, rec)

\* The same batch's write to the `aggregates` partition.  The key is the
\* aggregate id alone and the value the event id, so a later event of one
\* aggregate replaces the entry of the earlier one.
insert_aggregates_skipped(ag, rec) == ag
insert_aggregates(ag, rec) == Put(ag, rec.aggregate_id, rec.id)

\* EventArchiveInner::find_aggregate_events: scan `aggregates` for the keys
\* with the prefix aggregate_id (keys are all 16 bytes long, so these are the
\* keys equal to it) and fetch each event by its primary key; a missing
\* primary record is the "corrupt index" panic.
CorruptIndex == <<[id |-> 0, aggregate_id |-> 0, what |-> "corrupt index", data |-> 0]>>
find_aggregate_events(l, ag, aggregate_id) ==
    IF aggregate_id \notin DOMAIN ag THEN <<>>
    ELSE LET hits == SelectSeq(l, LAMBDA rec : rec.id = ag[aggregate_id])
         IN  IF hits = <<>> THEN CorruptIndex ELSE hits

\* Insertion of one record into a vector sorted by key.
RECURSIVE InsertByKey(_, _)
InsertByKey(s, rec) ==
    IF s = <<>> THEN <<rec>>
    ELSE IF rec.id < Head(s).id THEN <<rec>> \o s
    ELSE <<Head(s)>> \o InsertByKey(Tail(s), rec)

RECURSIVE SortByKey(_)
SortByKey(s) ==
    IF s = <<>> THEN <<>>
    ELSE InsertByKey(SortByKey(SubSeq(s, 1, Len(s) - 1)), s[Len(s)])

\* A journal read that lists every record twice.
find_all_repeating(l) == SortByKey(l) \o SortByKey(l)

\* EventArchiveInner::find_all: `self.events.iter()` walks the partition in
\* key order, and the key is the record's event id.
find_all(l) == SortByKey(l)

UsedEventIds == {log[i].id : i \in DOMAIN log}

\* ------------------------------------------------------------------ WriteModel

WriteModelDefault ==
    [author_name_ids |-> EmptyMap, book_title_ids |-> EmptyMap,
     author_ids |-> {}, reader_id_by_moniker |-> EmptyMap,
     books_read |-> EmptyMap]

WriteModelApply(w, e) ==
    CASE e.type = "BookAdded" ->
           [w EXCEPT !.book_title_ids = PushEntry(@, e.info.title, e.id)]
      [] e.type = "AuthorAdded" ->
           [w EXCEPT !.author_name_ids = PushEntry(@, e.info.name, e.id),
                     !.author_ids = @ \cup {e.id}]
      [] e.type = "ReaderAdded" ->
           [w EXCEPT !.reader_id_by_moniker = Put(@, e.info.unique_moniker, e.id)]
      [] e.type = "BookRead" ->
           [w EXCEPT !.books_read = InsertEntry(@, e.id, e.info.book_id)]

\* ------------------------------------------------------------------ IndexSet

\* --- text::SearchIndex

SEARCH_TERM_LENGTH_THRESHOLD == 1

Delimiters == {" ", ",", ".", "-", "(", ")"}

\* str::split on the delimiters: the pieces between them, empty ones included.
RECURSIVE split(_, _)
split(phrase, piece) ==
    IF phrase = <<>> THEN <<piece>>
    ELSE IF Head(phrase) \in Delimiters
         THEN <<piece>> \o split(Tail(phrase), <<>>)
         ELSE split(Tail(phrase), Append(piece, Head(phrase)))

\* str::len: the number of bytes of the UTF-8 encoding.
Utf8Len(ch) == IF ch = "é" THEN 2 ELSE 1

RECURSIVE len(_)
len(str) == IF str = <<>> THEN 0 ELSE Utf8Len(Head(str)) + len(Tail(str))

\* A tokenize that keeps every piece.
tokenize_unfiltered(phrase) == split(phrase, <<>>)

tokenize(phrase) ==
    SelectSeq(split(phrase, <<>>),
              LAMBDA term : len(term) > SEARCH_TERM_LENGTH_THRESHOLD)

Projection(kind, field, id) == [kind |-> kind, field |-> field, id |-> id]

bind_term(t, term, target) == InsertEntry(t, term, target)

RECURSIVE BindTerms(_, _, _)
BindTerms(t, terms, target) ==
    IF terms = <<>> THEN t
    ELSE BindTerms(bind_term(t, Head(terms), target), Tail(terms), target)

index_phrase(t, phrase, target) == BindTerms(t, tokenize(phrase), target)

\* SearchIndex::apply on term_projections.
SearchIndexApply(t, e) ==
    CASE e.type = "BookAdded" ->
           index_phrase(bind_term(t, e.info.isbn, Projection("Books", "Isbn", e.id)),
                        e.info.title, Projection("Books", "Title", e.id))
      [] e.type = "AuthorAdded" ->
           index_phrase(t, e.info.name, Projection("Authors", "Name", e.id))
      [] OTHER -> t

lookup(t, term) == IF term \in DOMAIN t THEN t[term] ELSE {}

\* --- keywords::Index

U16 == 65536

KeywordMapDefault == [next_id |-> 0, inner |-> {}]

\* BiHashMap: a set of (keyword, id) pairs; insert drops the pairs that have
\* the same left or the same right value.
get_by_left(inner, keyword) == {q[2] : q \in {x \in inner : x[1] = keyword}}
get_by_right(inner, id) == {q[1] : q \in {x \in inner : x[2] = id}}
BiInsert(inner, keyword, id) ==
    {q \in inner : q[1] # keyword /\ q[2] # id} \cup {<<keyword, id>>}

\* KeywordMap::get_or_reserve_id: the map after the call and the id returned.
get_or_reserve_id_always_new(km, keyword) ==
    [keyword_map |-> [next_id |-> (km.next_id + 1) % U16,
                      inner |-> BiInsert(km.inner, keyword, km.next_id)],
     id |-> km.next_id]
get_or_reserve_id(km, keyword) ==
    IF get_by_left(km.inner, keyword) # {}
    THEN [keyword_map |-> km,
          id |-> CHOOSE id \in get_by_left(km.inner, keyword) : TRUE]
    ELSE [keyword_map |-> [next_id |-> (km.next_id + 1) % U16,
                           inner |-> BiInsert(km.inner, keyword, km.next_id)],
          id |-> km.next_id]

KeywordIndexDefault ==
    [keyword_map |-> KeywordMapDefault,
     target_keywords |-> EmptyMap, keyword_targets |-> EmptyMap]

add_keyword_to_target(ix, keyword, target) ==
    LET reserved == get_or_reserve_id(ix.keyword_map, keyword)
    IN  [keyword_map |-> reserved.keyword_map,
         target_keywords |-> InsertEntry(ix.target_keywords, target, reserved.id),
         keyword_targets |-> InsertEntry(ix.keyword_targets, reserved.id, target)]

\* Index::get_keywords: one entry per id in the target's set, each the
\* keyword the map holds for the id ("consistent maps" panics when none).
get_keywords(ix, target) ==
    IF target \notin DOMAIN ix.target_keywords THEN EmptyMap
    ELSE [id \in ix.target_keywords[target] |->
            IF get_by_right(ix.keyword_map.inner, id) = {} THEN "panic"
            ELSE CHOOSE k \in get_by_right(ix.keyword_map.inner, id) : TRUE]

\* Index::get_targets_of_keyword: the targets of the keyword's id.
get_targets_of_keyword(ix, keyword) ==
    LET ids == get_by_left(ix.keyword_map.inner, keyword)
    IN  UNION {IF id \in DOMAIN ix.keyword_targets THEN ix.keyword_targets[id] ELSE {}
               : id \in ids}

\* --- IndexSet

IndexSetDefault ==
    [authors |-> EmptyMap, books |-> EmptyMap, readers |-> EmptyMap,
     reader_by_moniker |-> EmptyMap, books_by_reader_id |-> EmptyMap,
     books_by_author_id |-> EmptyMap,
     texts |-> EmptyMap, keywords |-> KeywordIndexDefault]

\* An apply_event whose entity maps keep the latest entity only.
apply_event_forgetful(r, e) ==
    CASE e.type = "BookAdded" ->
           [r EXCEPT !.books = Put(EmptyMap, e.id, e.info),
                     !.books_by_author_id = PushEntry(@, e.info.author, e.id)]
      [] e.type = "AuthorAdded" ->
           [r EXCEPT !.authors = Put(EmptyMap, e.id, e.info)]
      [] e.type = "ReaderAdded" ->
           [r EXCEPT !.reader_by_moniker = Put(@, e.info.unique_moniker, e.id),
                     !.readers = Put(EmptyMap, e.id, e.info)]
      [] OTHER -> r

\* An apply_event that leaves the authors map alone.
apply_event_no_author(r, e) == r

\* An apply_event that files a book under its own id.
apply_event_misfiled(r, e) ==
    CASE e.type = "BookAdded" ->
           [r EXCEPT !.books = Put(@, e.id, e.info),
                     !.books_by_author_id = PushEntry(@, e.id, e.id)]
      [] e.type = "AuthorAdded" ->
           [r EXCEPT !.authors = Put(@, e.id, e.info)]
      [] OTHER -> r

\* IndexSet::apply_event.
apply_event(r, e) ==
    CASE e.type = "BookAdded" ->
           [r EXCEPT !.books = Put(@, e.id, e.info),
                     !.books_by_author_id = PushEntry(@, e.info.author, e.id)]
      [] e.type = "AuthorAdded" ->
           [r EXCEPT !.authors = Put(@, e.id, e.info)]
      [] e.type = "ReaderAdded" ->
           [r EXCEPT !.reader_by_moniker = Put(@, e.info.unique_moniker, e.id),
                     !.readers = Put(@, e.id, e.info)]
      [] e.type = "BookRead" ->
           [r EXCEPT !.books_by_reader_id = InsertEntry(@, e.id, e.info)]
      [] e.type = "KeywordAdded" ->
           [r EXCEPT !.keywords = add_keyword_to_target(@, e.info, e.id)]

\* IndexSet::apply: the text index first, then the field indices, in one
\* call under the write lock of the apply loop.
IndexSetApply(r, e) ==
    apply_event([r EXCEPT !.texts = SearchIndexApply(@, e)], e)

\* ------------------------------------------------------------------ queries

\* AllAuthors: the ids of the returned authors (HashMap order is unspecified).
AllAuthors(r) == DOMAIN r.authors

\* AllBooks: the ids of the returned books.
AllBooks(r) == DOMAIN r.books

\* text::resolve_projection: an Option as a set, the hit for the field the
\* projection names, or nothing when the entity map has no entry for its id.
resolve_projection(target, index) ==
    CASE target.kind = "Books" /\ target.field = "Isbn" ->
           IF target.id \in DOMAIN index.books
           THEN {[target |-> target, source |-> index.books[target.id].isbn]} ELSE {}
      [] target.kind = "Books" /\ target.field = "Title" ->
           IF target.id \in DOMAIN index.books
           THEN {[target |-> target, source |-> index.books[target.id].title]} ELSE {}
      [] target.kind = "Authors" /\ target.field = "Name" ->
           IF target.id \in DOMAIN index.authors
           THEN {[target |-> target, source |-> index.authors[target.id].name]} ELSE {}

\* SearchQuery::execute: the hits of the term's projections; panic stands for
\* "Text index has data that is not reflected in the field indices."
SearchQuery(r, search_term) ==
    LET found == lookup(r.texts, search_term)
    IN  [panic |-> \E x \in found : resolve_projection(x, r) = {},
         hits |-> UNION {resolve_projection(x, r) : x \in found}]

\* BooksByReader: one entry per reading record of the reader, or nothing when
\* a record's book is unknown; returned as the records that produced a Book.
\* A BooksByReader that returns the records whose book resolves.
BooksByReader_partial(r, reader) ==
    IF reader \notin DOMAIN r.books_by_reader_id THEN {}
    ELSE {x \in r.books_by_reader_id[reader] : x.book_id \in DOMAIN r.books}

BooksByReader(r, reader) ==
    IF reader \notin DOMAIN r.books_by_reader_id THEN {}
    ELSE IF \A x \in r.books_by_reader_id[reader] : x.book_id \in DOMAIN r.books
         THEN r.books_by_reader_id[reader]
         ELSE {}

\* AuthorByBookId: an Option as a set, the id of the author of the book.
AuthorByBookId(r, id) ==
    IF id \in DOMAIN r.books /\ r.books[id].author \in DOMAIN r.authors
    THEN {r.books[id].author}
    ELSE {}

\* BooksByAuthorId: the ids of the returned books, in list order.
BooksByAuthorId(r, author_id) ==
    IF author_id \in DOMAIN r.books_by_author_id
    THEN SelectSeq(r.books_by_author_id[author_id], LAMBDA id : id \in DOMAIN r.books)
    ELSE <<>>

\* UniqueReaderByMoniker: the reader id found, or 0 for None.
UniqueReaderByMoniker(r, m) ==
    IF m \in DOMAIN r.reader_by_moniker /\ r.reader_by_moniker[m] \in DOMAIN r.readers
    THEN r.reader_by_moniker[m]
    ELSE 0

\* ------------------------------------------------------------------ commands

AddAuthor == [type |-> "AddAuthor", info |-> AuthorInfo]
AddBook(author) == [type |-> "AddBook", info |-> BookInfo(author)]
AddReader(m) == [type |-> "AddReader", info |-> ReaderInfo(m)]
AddReadBook(r, b, w) == [type |-> "AddReadBook", info |-> BookReadInfo(r, b, w)]

Commands ==
    {AddAuthor}
    \cup {AddBook(a) : a \in AuthorInputs}
    \cup {AddReader(m) : m \in Monikers}
    \cup {AddReadBook(r, b, w) : <<r, b, w>> \in ReaderInputs \X BookInputs \X Whens}

\* An AddBook validation that never rejects.
ValidAddBook_unchecked(w, info) == TRUE

\* accept's validation of each command against the WriteModel read snapshot.
ValidAddBook(w, info) == info.author \in w.author_ids

\* An AddReader validation that never rejects.
ValidAddReader_unchecked(w, info) == TRUE

ValidAddReader(w, info) == info.unique_moniker \notin DOMAIN w.reader_id_by_moniker

\* An AddReadBook validation that also wants the reader to be registered.
ValidAddReadBook_known_reader(w, info) ==
    /\ \E m \in DOMAIN w.reader_id_by_moniker : w.reader_id_by_moniker[m] = info.reader_id
    /\ ~(/\ info.reader_id \in DOMAIN w.books_read
         /\ info.book_id \in w.books_read[info.reader_id])

ValidAddReadBook(w, info) ==
    ~(/\ info.reader_id \in DOMAIN w.books_read
      /\ info.book_id \in w.books_read[info.reader_id])

Valid(w, cmd) ==
    CASE cmd.type = "AddBook" -> ValidAddBook(w, cmd.info)
      [] cmd.type = "AddAuthor" -> TRUE
      [] cmd.type = "AddReader" -> ValidAddReader(w, cmd.info)
      [] cmd.type = "AddReadBook" -> ValidAddReadBook(w, cmd.info)

\* An accept that puts the reader's name where the moniker belongs.
EventOf_renamed(cmd, fresh) ==
    IF cmd.type = "AddReader"
    THEN Event("ReaderAdded", fresh, [cmd.info EXCEPT !.unique_moniker = cmd.info.name])
    ELSE Event("AuthorAdded", fresh, AuthorInfo)

\* The event accept builds for a valid command; `fresh` is UniqueId::fresh().
EventOf(cmd, fresh) ==
    CASE cmd.type = "AddBook" -> Event("BookAdded", fresh, cmd.info)
      [] cmd.type = "AddAuthor" -> Event("AuthorAdded", fresh, cmd.info)
      [] cmd.type = "AddReader" -> Event("ReaderAdded", fresh, cmd.info)
      [] cmd.type = "AddReadBook" -> Event("BookRead", cmd.info.reader_id, cmd.info)

NoEvent == [type |-> "none", id |-> 0, info |-> 0]
NoProbe == [call |-> "none"]
Idle == [stage |-> "idle", event |-> NoEvent]

Pending == {c \in Callers : cur[c].stage = "validated"}

\* The callers inside QueryHandler::issue, holding a read guard of read_model.
IndexReaders == {c \in Callers : cur[c].stage = "querying"}

\* Ids already minted for an aggregate: those of the *Added records and of the
\* events callers hold.
MintedIds ==
    {log[i].aggregate_id : i \in {j \in DOMAIN log : log[j].what # "book-read"}}
    \cup {cur[c].event.id : c \in {d \in Callers : cur[d].event.type
                                       \in {"BookAdded", "AuthorAdded", "ReaderAdded"}}}

\* UniqueId::fresh() for an aggregate id.
FreshId == CHOOSE i \in 1..(MaxEvents + 1) : i \notin MintedIds /\ \A j \in 1..(i - 1) : j \in MintedIds

\* ------------------------------------------------------------------ channel

\* broadcast::Sender::send
send_dropped(ch, e) == ch
send(ch, e) == Append(ch, e)

\* A receiver that is only woken when two values wait.
HasNext_late(ch, pos) == pos + 1 < Len(ch)

\* EventBusSubscription::poll: recv() completes once a value the receiver has
\* not seen is on the channel.
HasNext(ch, pos) == pos < Len(ch)

\* A receiver whose next value has been overwritten gets RecvError::Lagged.
\* A receiver that never reports a lag.
Lagged_never(ch, pos) == FALSE

Lagged(ch, pos) == Len(ch) - pos > ChannelCapacity

\* A store mutex that excludes nobody.
MutexFree_unguarded(lock) == TRUE

\* tokio::sync::Mutex::lock on EventBus.event_store completes when it is free.
MutexFree(lock) == lock = "free"

\* ------------------------------------------------------------------ actions

Init ==
    /\ wm_readers = {}
    /\ log = <<>>
    /\ sent = <<>>
    /\ wmPos = 0
    /\ rmPos = 0
    /\ wmLoop = "none"
    /\ rmLoop = "none"
    /\ write_model = WriteModelDefault
    /\ read_model = IndexSetDefault
    /\ cur = [c \in Callers |-> Idle]
    /\ store_lock = "free"
    /\ phase = "new"
    /\ journal = <<>>
    /\ replayPos = 0
    /\ aggregates = EmptyMap
    /\ probe = NoProbe

\* Application::start, up to the journal() call of replay_journal: select!
\* evaluates query_handler.start(..), which spawns the ReadModel loop; the
\* dispatcher subscribes, replay_journal locks the store and reads the journal.
StartBegin ==
    /\ phase = "new"
    /\ MutexFree(store_lock)
    /\ rmLoop' = "running"
    /\ store_lock' = "replay"
    /\ journal' = find_all(log)
    /\ replayPos' = 0
    /\ phase' = "replaying"
    /\ UNCHANGED <<log, sent, wmPos, rmPos, wmLoop, write_model, read_model,
                   cur, aggregates, probe, wm_readers>>

\* One iteration of replay_journal's loop.
ReplayStep ==
    /\ phase = "replaying"
    /\ replayPos < Len(journal)
    /\ LET event == from_external_representation(journal[replayPos + 1])
       IN  IF IsError(event)
           THEN \* expect("a working replay") panics in main's task: the
                \* process ends, and the ReadModel loop with it.
                /\ phase' = "failed"
                /\ store_lock' = "free"
                /\ rmLoop' = "exited"
                /\ UNCHANGED <<sent, replayPos>>
           ELSE /\ sent' = send(sent, event)
                /\ replayPos' = replayPos + 1
                /\ UNCHANGED <<phase, store_lock, rmLoop>>
    /\ UNCHANGED <<log, wmPos, rmPos, wmLoop, write_model, read_model,
                   cur, journal, aggregates, probe, wm_readers>>

\* replay_journal returns, CommandDispatcher::start spawns the WriteModel
\* loop, the select! of Application::start completes and main serves traffic.
StartEnd ==
    /\ phase = "replaying"
    /\ replayPos = Len(journal)
    /\ store_lock' = "free"
    /\ wmLoop' = "running"
    /\ phase' = "serving"
    /\ UNCHANGED <<log, sent, wmPos, rmPos, rmLoop, write_model, read_model,
                   cur, journal, replayPos, aggregates, probe, wm_readers>>

\* CommandDispatcher::accept up to the call of emit: validation under the read
\* lock, then the id is minted. A rejected command returns false at once.
Accept(c, cmd) ==
    /\ phase = "serving"
    /\ cur[c].stage = "idle"
    /\ IF Valid(write_model, cmd)
       THEN /\ Len(log) + Cardinality(Pending) < MaxEvents
            /\ cur' = [cur EXCEPT ![c] = [stage |-> "validated",
                                          event |-> EventOf(cmd, FreshId)]]
       ELSE UNCHANGED cur
    /\ UNCHANGED <<log, sent, wmPos, rmPos, wmLoop, rmLoop, write_model,
                   read_model, store_lock, phase, journal, replayPos, aggregates, probe,
                   wm_readers>>

\* EventBus::emit: lock the store and persist (EventArchive::persist draws the
\* event id).
EmitPersist(c) ==
    /\ cur[c].stage = "validated"
    /\ MutexFree(store_lock)
    /\ \E event_id \in EventIds \ UsedEventIds :
          LET event == external_representation(cur[c].event, event_id)
          IN  /\ log' = insert(log, event)
              /\ aggregates' = insert_aggregates(aggregates, event)
    /\ store_lock' = c
    /\ cur' = [cur EXCEPT ![c].stage = "persisted"]
    /\ UNCHANGED <<sent, wmPos, rmPos, wmLoop, rmLoop, write_model, read_model,
                   phase, journal, replayPos, probe, wm_readers>>

\* EventBus::emit: broadcast, drop the store guard, return; accept returns true.
EmitSend(c) ==
    /\ cur[c].stage = "persisted"
    /\ sent' = send(sent, cur[c].event)
    /\ store_lock' = "free"
    /\ cur' = [cur EXCEPT ![c] = Idle]
    /\ UNCHANGED <<log, wmPos, rmPos, wmLoop, rmLoop, write_model, read_model,
                   phase, journal, replayPos, aggregates, probe, wm_readers>>

\* One iteration of the WriteModel loop of CommandDispatcher::start.
WMPoll ==
    /\ wmLoop = "running"
    /\ HasNext(sent, wmPos)
    /\ IF Lagged(sent, wmPos)
       THEN /\ wmLoop' = "exited"
            /\ UNCHANGED <<wmPos, write_model>>
       ELSE /\ wm_readers = {}
            /\ write_model' = WriteModelApply(write_model, sent[wmPos + 1])
            /\ wmPos' = wmPos + 1
            /\ UNCHANGED wmLoop
    /\ UNCHANGED <<log, sent, rmPos, rmLoop, read_model, cur, store_lock,
                   phase, journal, replayPos, aggregates, probe, wm_readers>>

\* One iteration of the ReadModel loop of QueryHandler::start.
RMPoll ==
    /\ rmLoop = "running"
    /\ HasNext(sent, rmPos)
    /\ IF Lagged(sent, rmPos)
       THEN /\ rmLoop' = "exited"
            /\ UNCHANGED <<rmPos, read_model>>
       ELSE /\ IndexReaders = {}
            /\ read_model' = IndexSetApply(read_model, sent[rmPos + 1])
            /\ rmPos' = rmPos + 1
            /\ UNCHANGED rmLoop
    /\ UNCHANGED <<log, sent, wmPos, wmLoop, write_model, cur, store_lock,
                   phase, journal, replayPos, aggregates, probe, wm_readers>>

\* The process dies and main runs again on the same store directory.
Restart ==
    /\ sent' = <<>>
    /\ wmPos' = 0
    /\ rmPos' = 0
    /\ wmLoop' = "none"
    /\ rmLoop' = "none"
    /\ write_model' = WriteModelDefault
    /\ read_model' = IndexSetDefault
    /\ cur' = [c \in Callers |-> Idle]
    /\ store_lock' = "free"
    /\ phase' = "new"
    /\ journal' = <<>>
    /\ replayPos' = 0
    /\ wm_readers' = {}
    /\ UNCHANGED <<log, aggregates, probe>>

Submit == \E c \in Callers, cmd \in Commands : Accept(c, cmd)
Persist == \E c \in Callers : EmitPersist(c)
Broadcast == \E c \in Callers : EmitSend(c)

Next ==
    \/ StartBegin
    \/ ReplayStep
    \/ StartEnd
    \/ Submit
    \/ Persist
    \/ Broadcast
    \/ WMPoll
    \/ RMPoll
    \/ Restart

Spec == Init /\ [][Next]_vars

\* A single caller that submits one command after the other, and a process
\* that is only restarted between two commands.
SubmitSeq == \E cmd \in Commands : Accept("c1", cmd)
PersistSeq == EmitPersist("c1")
BroadcastSeq == EmitSend("c1")
RestartIdle == cur["c1"] = Idle /\ Restart

NextSeq ==
    \/ StartBegin
    \/ ReplayStep
    \/ StartEnd
    \/ SubmitSeq
    \/ PersistSeq
    \/ BroadcastSeq
    \/ WMPoll
    \/ RMPoll
    \/ RestartIdle

SeqSpec == Init /\ [][NextSeq]_vars

\* A process that keeps running on a store that is empty or holds one author,
\* with both apply loops scheduled fairly (tokio polls a woken task).
InitLive ==
    /\ wm_readers = {}
    /\ log \in {<<>>, <<external_representation(Event("AuthorAdded", 1, AuthorInfo), 1)>>}
    /\ sent = <<>>
    /\ wmPos = 0
    /\ rmPos = 0
    /\ wmLoop = "none"
    /\ rmLoop = "none"
    /\ write_model = WriteModelDefault
    /\ read_model = IndexSetDefault
    /\ cur = [c \in Callers |-> Idle]
    /\ store_lock = "free"
    /\ phase = "new"
    /\ journal = <<>>
    /\ replayPos = 0
    /\ aggregates = [a \in {log[i].aggregate_id : i \in DOMAIN log} |-> 1]
    /\ probe = NoProbe

NextLive ==
    \/ StartBegin
    \/ ReplayStep
    \/ StartEnd
    \/ Submit
    \/ Persist
    \/ Broadcast
    \/ WMPoll
    \/ RMPoll

FairSpec == InitLive /\ [][NextLive]_vars /\ WF_vars(WMPoll) /\ WF_vars(RMPoll)

\* ------------------------------------------------------------------ properties

\* The typed events of the stored records, in insertion order.
LogEvents == [i \in DOMAIN log |-> from_external_representation(log[i])]

\* The records this process found at start are log[1..Len(journal)]; what it
\* appended itself comes after them. The channel carries the replayed values
\* first and the emitted ones after them.
LiveLog == SubSeq(LogEvents, Len(journal) + 1, Len(log))
LiveSent == SubSeq(sent, Len(journal) + 1, Len(sent))

RECURSIVE FoldWriteModel(_, _)
FoldWriteModel(w, s) ==
    IF s = <<>> THEN w ELSE FoldWriteModel(WriteModelApply(w, Head(s)), Tail(s))

RECURSIVE FoldIndexSet(_, _)
FoldIndexSet(r, s) ==
    IF s = <<>> THEN r ELSE FoldIndexSet(IndexSetApply(r, Head(s)), Tail(s))

IsReaderAdded(x, m) == x.what = "reader-added" /\ x.data.unique_moniker = m

\* Positions on the channel of the ReaderAdded events with moniker m that this
\* process emitted (their accept has returned true).
LiveReaders(m) ==
    {i \in DOMAIN LiveSent :
        LiveSent[i].type = "ReaderAdded" /\ LiveSent[i].info.unique_moniker = m}

FirstLiveReader(m) == CHOOSE i \in LiveReaders(m) : \A j \in LiveReaders(m) : i <= j

\* Nothing is in flight and both projections have applied the whole channel.
Quiescent ==
    /\ phase = "serving"
    /\ \A c \in Callers : cur[c] = Idle
    /\ wmLoop = "running" /\ rmLoop = "running"
    /\ wmPos = Len(sent) /\ rmPos = Len(sent)

\* C1 (durability before broadcast): every value on the broadcast channel,
\* delivered or still queued, is the event of a record already in the store,
\* and no record is broadcast more often than it is stored.
C1_DurabilityBeforeBroadcast ==
    \A i \in DOMAIN sent : Count(sent, sent[i]) <= Count(LogEvents, sent[i])

\* An emit has completed and the ReadModel subscriber has received its event.
C1_Witness ==
    /\ phase = "serving"
    /\ Len(LiveSent) >= 1
    /\ rmPos = Len(sent)

\* C2 (live order preservation): the events emitted by this process are on the
\* channel in the order their records were persisted, and each projection is
\* the result of applying, in channel order, the values its subscriber has
\* received so far.
C2_LiveOrderPreserved ==
    /\ phase = "serving" => IsPrefix(LiveSent, LiveLog)
    /\ write_model = FoldWriteModel(WriteModelDefault, SubSeq(sent, 1, wmPos))
    /\ read_model = FoldIndexSet(IndexSetDefault, SubSeq(sent, 1, rmPos))

\* Two emitted events have been received and applied by both loops.
C2_Witness ==
    /\ phase = "serving"
    /\ Len(LiveSent) >= 2
    /\ wmPos = Len(sent) /\ rmPos = Len(sent)

\* C3 (replay order): journal() returns the records in the order persist
\* appended them, and replay broadcasts them in that order.
C3_ReplayInAppendOrder ==
    /\ find_all(log) = log
    /\ phase = "serving" =>
          SubSeq(sent, 1, Len(journal)) = SubSeq(LogEvents, 1, Len(journal))

\* C4 (moniker uniqueness): the log never holds two ReaderAdded records with
\* the same unique_moniker.
C4_MonikerUnique ==
    \A i, j \in DOMAIN log, m \in Monikers :
        (IsReaderAdded(log[i], m) /\ IsReaderAdded(log[j], m)) => i = j

\* C5 (sequential duplicate reader): once an AddReader with moniker m has
\* returned accepted, a further AddReader with the same moniker is rejected,
\* and UniqueReaderByMoniker(m) is the reader of the first command.
C5_SecondAddReaderRejected ==
    /\ [][\A m \in Monikers :
             (LiveReaders(m) # {} /\ Accept("c1", AddReader(m))) => cur' = cur]_vars
    /\ [](\A m \in Monikers :
             (Quiescent /\ LiveReaders(m) # {}) =>
                 UniqueReaderByMoniker(read_model, m) = LiveSent[FirstLiveReader(m)].id)

\* C6 (reference soundness): every BookAdded record is preceded in the log by
\* the AuthorAdded record of the book's author.
C6_ReferenceSound ==
    \A j \in DOMAIN log :
        log[j].what = "book-added" =>
            \E i \in 1..(j - 1) :
                /\ log[i].what = "author-added"
                /\ log[i].aggregate_id = log[j].data.author

\* A book has been added.
C6_Witness == \E j \in DOMAIN log : log[j].what = "book-added"

\* C7 (idempotent reading): for every reader r and book b the IndexSet holds at
\* most one reading record for (r, b), and BooksByReader(r) yields b at most once.
C7_ReadingIdempotent ==
    \A r \in DOMAIN read_model.books_by_reader_id, b \in BookInputs :
        /\ Cardinality({x \in read_model.books_by_reader_id[r] : x.book_id = b}) <= 1
        /\ Cardinality({x \in BooksByReader(read_model, r) : x.book_id = b}) <= 1

\* C8 (replay determinism): when every record of the log has been broadcast in
\* this process and a model has applied the whole channel, that model is what
\* applying the log's events in the order they were produced gives, in the
\* process that produced them and in one that replayed them.
C8_ReplayDeterministic ==
    (/\ phase = "serving"
     /\ \A c \in Callers : cur[c] = Idle
     /\ Len(sent) = Len(log)) =>
        /\ (wmLoop = "running" /\ wmPos = Len(sent)) =>
               write_model = FoldWriteModel(WriteModelDefault, LogEvents)
        /\ (rmLoop = "running" /\ rmPos = Len(sent)) =>
               read_model = FoldIndexSet(IndexSetDefault, LogEvents)

\* C9 (start gating): when Application::start returns, both loops run and both
\* models have applied every record of the journal; and no command is accepted
\* against a WriteModel that misses a journal record.
C9_StartGated ==
    /\ [][StartEnd =>
            /\ wmLoop' = "running" /\ rmLoop' = "running"
            /\ wmPos' >= Len(journal') /\ rmPos' >= Len(journal')]_vars
    /\ [][(\E c \in Callers, cmd \in Commands : Accept(c, cmd))
            => wmPos >= Len(journal)]_vars

\* The authors whose AuthorAdded event this process has emitted.
LiveAuthors ==
    {LiveSent[i].id : i \in {j \in DOMAIN LiveSent : LiveSent[j].type = "AuthorAdded"}}

\* C10 (eventual consistency), as claimed: every event whose emit succeeded is
\* eventually applied to the WriteModel and to the ReadModel, and the author of
\* an accepted AddAuthor is eventually returned by AllAuthors.
C10_EventuallyApplied ==
    /\ \A i \in 1..MaxEvents :
          (phase = "serving" /\ i > Len(journal) /\ Len(sent) >= i)
              ~> (wmPos >= i /\ rmPos >= i)
    /\ \A a \in 1..MaxEvents :
          (phase = "serving" /\ a \in LiveAuthors) ~> (a \in AllAuthors(read_model))

\* C10, amended: every event whose emit succeeded is eventually applied to each
\* model whose apply loop has not exited on a lag error.
C10_EventuallyAppliedUnlessLagged ==
    /\ \A i \in 1..MaxEvents :
          (phase = "serving" /\ i > Len(journal) /\ Len(sent) >= i)
              ~> (/\ wmPos >= i \/ wmLoop = "exited"
                  /\ rmPos >= i \/ rmLoop = "exited")
    /\ \A a \in 1..MaxEvents :
          (phase = "serving" /\ a \in LiveAuthors)
              ~> (a \in AllAuthors(read_model) \/ rmLoop = "exited")

\* An emitted AuthorAdded has been applied to both models and AllAuthors
\* returns its author.
C10_Witness ==
    /\ phase = "serving"
    /\ wmLoop = "running" /\ rmLoop = "running"
    /\ wmPos = Len(sent) /\ rmPos = Len(sent)
    /\ \E a \in LiveAuthors : a \in AllAuthors(read_model) /\ a \in write_model.author_ids


\* ---------------------------------------------------------------------
\* Store claims: secondary index and append-only log
\* ---------------------------------------------------------------------

\* The aggregate ids an event of this model can carry.
AggregateIds == EventIds \cup ReaderInputs \cup BookInputs \cup AuthorInputs

\* C11 (atomic index write): every entry of `aggregates` names an event id
\* that is in `events` and whose record has that aggregate id, every stored
\* record's aggregate has an entry, and no scan meets a missing primary;
\* this holds in every state, those a crash inside persist leaves included.
C11_IndexAtomic ==
    /\ \A a \in DOMAIN aggregates :
          \E i \in DOMAIN log : log[i].id = aggregates[a] /\ log[i].aggregate_id = a
    /\ \A i \in DOMAIN log : log[i].aggregate_id \in DOMAIN aggregates
    /\ \A a \in AggregateIds : find_aggregate_events(log, aggregates, a) # CorruptIndex

\* A process that died between the batch commit and the broadcast: the
\* store it left holds the record and its index entry.
C11_Witness ==
    /\ phase = "new"
    /\ Len(log) = MaxEvents
    /\ Len(sent) = 0
    /\ \A i \in DOMAIN log : log[i].aggregate_id \in DOMAIN aggregates

\* C12 (aggregate history): find_by_aggregate_id(a) returns every record
\* whose aggregate id is a, each once, in append order.
C12_AggregateHistory ==
    \A a \in AggregateIds :
        find_aggregate_events(log, aggregates, a)
            = SelectSeq(log, LAMBDA rec : rec.aggregate_id = a)

\* C13 (append-only log): a step keeps every stored record, with its id,
\* aggregate id, type and data, at its place in the log, and the journal
\* read before the step is a prefix of the journal read after it.
C13_AppendOnly ==
    [][/\ IsPrefix(log, log')
       /\ IsPrefix(find_all(log), find_all(log'))]_vars


\* ---------------------------------------------------------------------
\* Command claims: rejection, acceptance, and what accepted means
\* ---------------------------------------------------------------------

\* The rejections of accept, read off the WriteModel fields.
Refused(w, cmd) ==
    CASE cmd.type = "AddBook" -> cmd.info.author \notin w.author_ids
      [] cmd.type = "AddReader" ->
           cmd.info.unique_moniker \in DOMAIN w.reader_id_by_moniker
      [] cmd.type = "AddReadBook" ->
           /\ cmd.info.reader_id \in DOMAIN w.books_read
           /\ cmd.info.book_id \in w.books_read[cmd.info.reader_id]
      [] OTHER -> FALSE

\* C14 (rejection has no effect): a command that fails validation leaves the
\* log, the channel, both models and the caller as they were (nothing is
\* persisted or broadcast); and while the log holds no AuthorAdded record,
\* AllBooks is empty.
C14_RejectionNoEffect ==
    /\ [][\A c \in Callers, cmd \in Commands :
            (Refused(write_model, cmd) /\ Accept(c, cmd)) => UNCHANGED vars]_vars
    /\ []((\A i \in DOMAIN log : log[i].what # "author-added")
            => AllBooks(read_model) = {})

\* A serving process in which AddReader of a taken moniker and AddBook of an
\* unknown author are both rejected.
C14_Witness ==
    /\ phase = "serving"
    /\ \E c \in Callers : cur[c] = Idle
    /\ \E m \in Monikers : Refused(write_model, AddReader(m))
    /\ \E a \in AuthorInputs : Refused(write_model, AddBook(a))

PersistedCallers == {c \in Callers : cur[c].stage = "persisted"}

\* C15 (one event per accepted command): the event accept builds carries the
\* command's info unchanged, persist appends exactly one record of it, the
\* bus sends exactly that event once, so that the log is as long as the
\* channel plus the emits between persist and send; and AddAuthor is never
\* rejected.
C15_OneEventPerCommand ==
    /\ [][\A c \in Callers, cmd \in Commands :
            (Accept(c, cmd) /\ cur'[c].stage = "validated")
                => (cur'[c].event.info = cmd.info /\ ~Refused(write_model, cmd))]_vars
    /\ [][\A c \in Callers : EmitPersist(c) =>
            /\ Len(log') = Len(log) + 1
            /\ SubSeq(log', 1, Len(log)) = log
            /\ from_external_representation(log'[Len(log')]) = cur[c].event]_vars
    /\ [][\A c \in Callers : EmitSend(c) => sent' = Append(sent, cur[c].event)]_vars
    /\ [](phase = "serving" => Len(log) = Len(sent) + Cardinality(PersistedCallers))
    /\ [][\A c \in Callers : Accept(c, AddAuthor) => cur'[c].stage = "validated"]_vars

\* Two commands were accepted and each left one record and one broadcast.
C15_Witness ==
    /\ phase = "serving"
    /\ journal = <<>>
    /\ Len(log) = MaxEvents /\ Len(sent) = MaxEvents
    /\ \A c \in Callers : cur[c] = Idle

\* C16 (accepted implies stored and sent): at the step in which accept
\* returns true, the event's record is in the log and the event is on the
\* channel.
C16_AcceptedImpliesStoredAndSent ==
    [][\A c \in Callers : EmitSend(c) =>
          /\ \E i \in DOMAIN log' : from_external_representation(log'[i]) = cur[c].event
          /\ \E j \in DOMAIN sent' : sent'[j] = cur[c].event
          /\ cur'[c] = Idle]_vars

\* accept has just returned true for an AddReader while the other caller is
\* still inside emit.
C16_Witness ==
    /\ phase = "serving"
    /\ cur["c1"] = Idle
    /\ cur["c2"].stage = "validated"
    /\ Len(sent) > Len(journal)
    /\ sent[Len(sent)].type = "ReaderAdded"


\* ---------------------------------------------------------------------
\* ReadModel claims
\* ---------------------------------------------------------------------

\* The terms a client may search for: what the index holds and some it
\* does not.
SearchTerms ==
    DOMAIN read_model.texts
    \cup {<<"A", "l">>, <<"T", "o">>, <<"B">>, <<"9", "-", "0">>, <<"9">>, <<>>}

\* C17 (search resolvability): in every state a query can observe, each
\* projection of the text index resolves against the books or the authors
\* map, and no SearchQuery panics.
C17_SearchResolves ==
    /\ \A term \in DOMAIN read_model.texts : \A x \in read_model.texts[term] :
          resolve_projection(x, read_model) # {}
    /\ \A term \in SearchTerms : ~SearchQuery(read_model, term).panic

\* The index holds a book by its ISBN and by a title token, and an author by
\* name; the one-character title token is not indexed.
C17_Witness ==
    /\ \E x \in SearchQuery(read_model, <<"9", "-", "0">>).hits : x.target.field = "Isbn"
    /\ \E x \in SearchQuery(read_model, <<"T", "o">>).hits : x.target.field = "Title"
    /\ \E x \in SearchQuery(read_model, <<"A", "l">>).hits : x.target.field = "Name"
    /\ SearchQuery(read_model, <<"B">>).hits = {}


\* Every entry of the map f is in g with the same value.
MapKept(f, g) == DOMAIN f \subseteq DOMAIN g /\ \A k \in DOMAIN f : g[k] = f[k]

\* Every key of f is in g with at least the members it had.
SetsGrow(f, g) == DOMAIN f \subseteq DOMAIN g /\ \A k \in DOMAIN f : f[k] \subseteq g[k]

\* Every key of f is in g with the vector it had as a prefix.
VecsGrow(f, g) == DOMAIN f \subseteq DOMAIN g /\ \A k \in DOMAIN f : IsPrefix(f[k], g[k])

\* What the IndexSet r shows, the IndexSet q shows too.
Reflects(q, r) ==
    /\ MapKept(r.authors, q.authors)
    /\ MapKept(r.books, q.books)
    /\ MapKept(r.readers, q.readers)
    /\ DOMAIN r.reader_by_moniker \subseteq DOMAIN q.reader_by_moniker
    /\ SetsGrow(r.books_by_reader_id, q.books_by_reader_id)
    /\ VecsGrow(r.books_by_author_id, q.books_by_author_id)
    /\ SetsGrow(r.texts, q.texts)
    /\ AllAuthors(r) \subseteq AllAuthors(q)
    /\ AllBooks(r) \subseteq AllBooks(q)

\* C18 (monotonic reads): within one process the number of events the
\* ReadModel reflects never decreases and a later query sees everything an
\* earlier one saw; and what a query sees is always the result of applying
\* whole events, a prefix of the channel.
C18_MonotonicReads ==
    /\ [][Restart \/ (rmPos' >= rmPos /\ Reflects(read_model', read_model))]_vars
    /\ [](read_model = FoldIndexSet(IndexSetDefault, SubSeq(sent, 1, rmPos)))

\* The ReadModel has applied two events and shows both entities.
C18_Witness ==
    /\ rmPos = 2
    /\ Cardinality(DOMAIN read_model.authors \cup DOMAIN read_model.books
                   \cup DOMAIN read_model.readers) = 2


\* ---------------------------------------------------------------------
\* The keyword index under KeywordAdded events
\* ---------------------------------------------------------------------

Keywords == {"k1", "k2", "k3"}
KeywordTargets ==
    {KeywordTarget("Book", 1), KeywordTarget("Book", 2), KeywordTarget("Author", 1)}

\* IndexSet::apply on the event KeywordAdded(target, keyword).
ApplyKeywordAdded(target, keyword) ==
    /\ read_model' = IndexSetApply(read_model, KeywordAdded(target, keyword))
    /\ UNCHANGED <<log, sent, wmPos, rmPos, wmLoop, rmLoop, write_model, cur,
                   store_lock, phase, journal, replayPos, aggregates, probe, wm_readers>>

NextKeyword ==
    \E target \in KeywordTargets, keyword \in Keywords : ApplyKeywordAdded(target, keyword)

KeywordSpec == Init /\ [][NextKeyword]_vars

\* How many entries of the vector get_keywords returns are the keyword k.
KeywordCount(ix, target, k) ==
    Cardinality({id \in DOMAIN get_keywords(ix, target) : get_keywords(ix, target)[id] = k})

\* C19 (keyword tagging idempotent): from any keyword index, applying
\* KeywordAdded(target, k) a second and a third time gives the index of the
\* first application, in which the keywords of target hold k once and the
\* targets of k hold target.
C19_KeywordIdempotent ==
    \A target \in KeywordTargets, k \in Keywords :
        LET e == KeywordAdded(target, k)
            once == IndexSetApply(read_model, e)
            twice == IndexSetApply(once, e)
        IN  /\ twice = once
            /\ IndexSetApply(twice, e) = once
            /\ KeywordCount(once.keywords, target, k) = 1
            /\ target \in get_targets_of_keyword(once.keywords, k)
            /\ \A other \in Keywords \ {k} :
                  KeywordCount(once.keywords, target, other)
                      = KeywordCount(read_model.keywords, target, other)

\* A target carries two keywords, one of them shared with another target, so
\* that a further KeywordAdded of either repeats an earlier one.
C19_Witness ==
    \E t1, t2 \in KeywordTargets, k1, k2 \in Keywords :
        /\ t1 # t2 /\ k1 # k2
        /\ KeywordCount(read_model.keywords, t1, k1) = 1
        /\ KeywordCount(read_model.keywords, t1, k2) = 1
        /\ {t1, t2} \subseteq get_targets_of_keyword(read_model.keywords, k1)
        /\ read_model.keywords.keyword_map.next_id = 2

\* ---------------------------------------------------------------------
\* The event codec
\* ---------------------------------------------------------------------

\* The events of the five variants over the ids and infos of this model.
CodecEvents ==
    {Event("AuthorAdded", a, AuthorInfo) : a \in AuthorInputs}
    \cup {Event("BookAdded", b, BookInfo(a)) : <<b, a>> \in BookInputs \X AuthorInputs}
    \cup {Event("ReaderAdded", r, ReaderInfo(m)) : <<r, m>> \in EventIds \X Monikers}
    \cup {Event("BookRead", r, BookReadInfo(r, b, w))
            : <<r, b, w>> \in ReaderInputs \X BookInputs \X Whens}
    \cup {KeywordAdded(t, k) : <<t, k>> \in KeywordTargets \X Keywords}

CodecEventIds == 1..(MaxEvents + 3)

InitCodec ==
    /\ wm_readers = {}
    /\ log = <<>>
    /\ sent = <<>>
    /\ wmPos = 0
    /\ rmPos = 0
    /\ wmLoop = "none"
    /\ rmLoop = "none"
    /\ write_model = WriteModelDefault
    /\ read_model = IndexSetDefault
    /\ cur = [c \in Callers |-> Idle]
    /\ store_lock = "free"
    /\ phase = "new"
    /\ journal = <<>>
    /\ replayPos = 0
    /\ aggregates = EmptyMap
    /\ \E e \in CodecEvents, event_id \in CodecEventIds :
          probe = [call |-> "external_representation", event |-> e,
                   record |-> external_representation(e, event_id)]

\* The stored record is read back.
Decode ==
    /\ probe.call = "external_representation"
    /\ probe' = [call |-> "from_external_representation", event |-> probe.event,
                 record |-> probe.record,
                 result |-> from_external_representation(probe.record)]
    /\ UNCHANGED <<log, sent, wmPos, rmPos, wmLoop, rmLoop, write_model,
                   read_model, cur, store_lock, phase, journal, replayPos, aggregates,
                   wm_readers>>

CodecSpec == InitCodec /\ [][Decode]_vars

\* C20 (event round trip): from_external_representation of the record
\* external_representation made of an event gives the event back, for each
\* of the five variants.
C20_EventRoundTrip ==
    probe.call = "from_external_representation" => probe.result = probe.event


\* ---------------------------------------------------------------------
\* Start on a store written by another version
\* ---------------------------------------------------------------------

\* The names Event::name can give.
EventNames ==
    {"book-added", "author-added", "reader-added", "book-read", "keyword-added"}

\* A record of an event type this version does not know.
ForeignRecord(event_id) ==
    [id |-> event_id, aggregate_id |-> 1, what |-> "book-removed", data |-> 0]

\* A store that holds one or two records, one of them foreign.
InitSkew ==
    /\ wm_readers = {}
    /\ log \in {<<ForeignRecord(1)>>,
                <<external_representation(Event("AuthorAdded", 1, AuthorInfo), 1),
                  ForeignRecord(2)>>,
                <<external_representation(Event("AuthorAdded", 1, AuthorInfo), 2),
                  ForeignRecord(1)>>,
                <<external_representation(Event("AuthorAdded", 1, AuthorInfo), 1)>>}
    /\ sent = <<>>
    /\ wmPos = 0
    /\ rmPos = 0
    /\ wmLoop = "none"
    /\ rmLoop = "none"
    /\ write_model = WriteModelDefault
    /\ read_model = IndexSetDefault
    /\ cur = [c \in Callers |-> Idle]
    /\ store_lock = "free"
    /\ phase = "new"
    /\ journal = <<>>
    /\ replayPos = 0
    /\ aggregates = [a \in {log[i].aggregate_id : i \in DOMAIN log} |-> log[Len(log)].id]
    /\ probe = NoProbe

SkewSpec == InitSkew /\ [][Next]_vars

\* C21 (closed discriminator): replay of a record whose `what` is not an
\* event name fails the start; the process never serves on a journal with
\* such a record, and once the start has failed no apply loop is started:
\* the WriteModel loop was never spawned and the ReadModel loop is gone.
C21_UnknownTypeFailsStart ==
    /\ [][(ReplayStep /\ journal[replayPos + 1].what \notin EventNames)
            => phase' = "failed"]_vars
    /\ [](phase = "serving" =>
            \A i \in DOMAIN journal : journal[i].what \in EventNames)
    /\ [](phase = "failed" => (wmLoop = "none" /\ rmLoop # "running"))
    /\ [][phase = "failed" =>
            (Restart \/ (wmLoop' = wmLoop /\ rmLoop' = rmLoop
                         /\ write_model' = write_model /\ read_model' = read_model))]_vars

\* The start failed on the second record of the journal, after the first had
\* been replayed.
C21_Witness ==
    /\ phase = "failed"
    /\ Len(sent) = 1
    /\ journal[2].what = "book-removed"
    /\ wmLoop = "none"


\* ---------------------------------------------------------------------
\* Apply loops: lag
\* ---------------------------------------------------------------------

\* C22 (lag terminates the projection): a poll by a loop whose unread
\* backlog is larger than the channel capacity ends that loop without
\* applying anything, and a loop that has exited applies no further event
\* for the rest of the process.
C22_LagTerminates ==
    /\ [][(WMPoll /\ Len(sent) - wmPos > ChannelCapacity)
            => (wmLoop' = "exited" /\ write_model' = write_model /\ wmPos' = wmPos)]_vars
    /\ [][(RMPoll /\ Len(sent) - rmPos > ChannelCapacity)
            => (rmLoop' = "exited" /\ read_model' = read_model /\ rmPos' = rmPos)]_vars
    /\ [][wmLoop = "exited" =>
            (Restart \/ (wmLoop' = "exited" /\ write_model' = write_model
                         /\ wmPos' = wmPos))]_vars
    /\ [][rmLoop = "exited" =>
            (Restart \/ (rmLoop' = "exited" /\ read_model' = read_model
                         /\ rmPos' = rmPos))]_vars

\* The ReadModel loop has exited on a lag while the process serves, with
\* events on the channel that it has not applied.
C22_Witness ==
    /\ phase = "serving"
    /\ rmLoop = "exited"
    /\ Len(sent) - rmPos > ChannelCapacity
    /\ wmLoop = "running"


\* ---------------------------------------------------------------------
\* Locks and the span of Application::start
\* ---------------------------------------------------------------------

\* C27 (store mutex scope): the store mutex is free whenever a value is sent
\* on the channel, it is held by nobody once persist has returned, and
\* reading the journal leaves it free.
C27_StoreMutexScope ==
    /\ [][Len(sent') > Len(sent) => store_lock = "free"]_vars
    /\ [](\A c \in Callers : cur[c].stage = "persisted" => store_lock # c)
    /\ [][StartBegin => store_lock' = "free"]_vars

\* C29 (start blocks): Application::start returns only when one of the two
\* apply loops has exited or termination has been signalled.
C29_StartBlocks ==
    [][StartEnd =>
          (wmLoop' = "exited" \/ rmLoop' = "exited" \/ phase' = "stopping")]_vars


\* ---------------------------------------------------------------------
\* Keyword::from_str
\* ---------------------------------------------------------------------

\* Characters: two letters (one outside ASCII), the two marks of the class,
\* a digit and a space.
Letters == {"a", "é"}
KeywordChars == Letters \cup {"_", "-", "1", " "}
MaxKeywordLen == 3

RECURSIVE Strings(_)
Strings(n) ==
    IF n = 0 THEN {<<>>}
    ELSE Strings(n - 1)
         \cup {Append(str, ch) : <<str, ch>> \in Strings(n - 1) \X KeywordChars}

\* The class of keyword_regex: \p{L}, '-' and '_'.
KeywordClass == Letters \cup {"-", "_"}

\* Regex::is_match: true when some substring matches, here when the string
\* holds one character of the class (the pattern is not anchored).
is_match(keyword) == \E i \in DOMAIN keyword : keyword[i] \in KeywordClass

\* Keyword::from_str.  keyword_regex compiles the pattern on first use and
\* panics ("KEYWORD_REGEX is valid") if the regex crate refuses the class,
\* which has the class \p{L} where a range would begin.
from_str(keyword, regex_compiles) ==
    IF ~regex_compiles THEN "panic"
    ELSE IF is_match(keyword) THEN "Ok" ELSE "Err"

InitKeywordParse ==
    /\ wm_readers = {}
    /\ log = <<>>
    /\ sent = <<>>
    /\ wmPos = 0
    /\ rmPos = 0
    /\ wmLoop = "none"
    /\ rmLoop = "none"
    /\ write_model = WriteModelDefault
    /\ read_model = IndexSetDefault
    /\ cur = [c \in Callers |-> Idle]
    /\ store_lock = "free"
    /\ phase = "new"
    /\ journal = <<>>
    /\ replayPos = 0
    /\ aggregates = EmptyMap
    /\ \E keyword \in Strings(MaxKeywordLen), regex_compiles \in BOOLEAN :
          probe = [call |-> "from_str", keyword |-> keyword,
                   regex_compiles |-> regex_compiles]

ParseKeyword ==
    /\ probe.call = "from_str"
    /\ probe' = [call |-> "from_str returned", keyword |-> probe.keyword,
                 result |-> from_str(probe.keyword, probe.regex_compiles)]
    /\ UNCHANGED <<log, sent, wmPos, rmPos, wmLoop, rmLoop, write_model,
                   read_model, cur, store_lock, phase, journal, replayPos, aggregates,
                   wm_readers>>

KeywordParseSpec == InitKeywordParse /\ [][ParseKeyword]_vars

\* C25 (keyword validity): from_str returns Ok exactly for the non-empty
\* strings made of letters, '_' and '-' only, and Err for every other string.
C25_KeywordValidity ==
    probe.call = "from_str returned" =>
        LET valid == /\ probe.keyword # <<>>
                     /\ \A i \in DOMAIN probe.keyword :
                           probe.keyword[i] \in Letters \cup {"_", "-"}
        IN  probe.result = (IF valid THEN "Ok" ELSE "Err")


\* ---------------------------------------------------------------------
\* The text index under BookAdded and AuthorAdded events
\* ---------------------------------------------------------------------

Titles == {<<"T", "o", " ", "B">>, <<"a", "b", "-", "c", "d">>,
           <<"(", "é", ")", ".", "x">>}
Isbns == {<<"9", "-", "0">>, <<"a", "b">>}
Names == {<<"A", "l">>, <<"a", "b", ",", "A", "l">>}
SearchIds == {1, 2}

\* IndexSet::apply on a BookAdded event of a book id not seen before.
ApplyBookAdded(id, isbn, title, author) ==
    /\ id \notin DOMAIN read_model.books
    /\ read_model' = IndexSetApply(read_model,
            Event("BookAdded", id, [isbn |-> isbn, title |-> title, author |-> author]))
    /\ UNCHANGED <<log, sent, wmPos, rmPos, wmLoop, rmLoop, write_model, cur,
                   store_lock, phase, journal, replayPos, aggregates, probe, wm_readers>>

\* IndexSet::apply on an AuthorAdded event of an author id not seen before.
ApplyAuthorAdded(id, name) ==
    /\ id \notin DOMAIN read_model.authors
    /\ read_model' = IndexSetApply(read_model, Event("AuthorAdded", id, [name |-> name]))
    /\ UNCHANGED <<log, sent, wmPos, rmPos, wmLoop, rmLoop, write_model, cur,
                   store_lock, phase, journal, replayPos, aggregates, probe, wm_readers>>

NextSearch ==
    \/ \E id \in SearchIds, isbn \in Isbns, title \in Titles, author \in SearchIds :
          ApplyBookAdded(id, isbn, title, author)
    \/ \E id \in SearchIds, name \in Names : ApplyAuthorAdded(id, name)

SearchSpec == Init /\ [][NextSearch]_vars

\* Every contiguous part of a string, the empty one included.
SubStrings(str) == {SubSeq(str, i, j) : i \in 1..(Len(str) + 1), j \in 0..Len(str)}

\* The terms searched for: every part of every title, ISBN and name.
AllSearchTerms == UNION {SubStrings(str) : str \in Titles \cup Isbns \cup Names}

\* t is a token of phrase: a longest run without a delimiter, of length
\* (str::len) above 1.
IsToken(t, phrase) ==
    /\ len(t) > 1
    /\ \E i, j \in DOMAIN phrase :
          /\ i <= j
          /\ SubSeq(phrase, i, j) = t
          /\ \A k \in i..j : phrase[k] \notin Delimiters
          /\ i = 1 \/ phrase[i - 1] \in Delimiters
          /\ j = Len(phrase) \/ phrase[j + 1] \in Delimiters

FullKeywordIndex ==
    [keyword_map |-> [next_id |-> U16 - 1, inner |-> {<<n, n>> : n \in 0..(U16 - 2)}],
     target_keywords |-> [t \in {KeywordTarget("Book", 1)} |-> 0..(U16 - 2)],
     keyword_targets |-> [id \in 0..(U16 - 2) |-> {KeywordTarget("Book", 1)}]]

\* Keywords the index holds and keywords it has not seen.
WrapKeywords == {0, U16 - 1, U16}

InitWrap ==
    /\ wm_readers = {}
    /\ log = <<>>
    /\ sent = <<>>
    /\ wmPos = 0
    /\ rmPos = 0
    /\ wmLoop = "running"
    /\ rmLoop = "running"
    /\ write_model = WriteModelDefault
    /\ read_model = [IndexSetDefault EXCEPT !.keywords = FullKeywordIndex]
    /\ cur = [c \in Callers |-> Idle]
    /\ store_lock = "free"
    /\ phase = "serving"
    /\ journal = <<>>
    /\ replayPos = 0
    /\ aggregates = EmptyMap
    /\ probe = NoProbe

\* `self.next_id += 1` at the last value of the u16, in a build without
\* overflow checks: next_id wraps (get_or_reserve_id) and the event is applied.
ApplyKeywordAddedWrapping(target, keyword) ==
    /\ rmLoop = "running"
    /\ read_model' = IndexSetApply(read_model, KeywordAdded(target, keyword))
    /\ UNCHANGED <<log, sent, wmPos, rmPos, wmLoop, rmLoop, write_model, cur,
                   store_lock, phase, journal, replayPos, aggregates, probe, wm_readers>>

\* The same in a build with overflow checks: the addition panics after the
\* pair is in the map and before the target is tagged; the task of the
\* ReadModel loop ends.
ApplyKeywordAddedChecked(target, keyword) ==
    /\ rmLoop = "running"
    /\ read_model.keywords.keyword_map.next_id = U16 - 1
    /\ get_by_left(read_model.keywords.keyword_map.inner, keyword) = {}
    /\ read_model' = [read_model EXCEPT !.keywords.keyword_map.inner =
                          BiInsert(@, keyword, U16 - 1)]
    /\ rmLoop' = "exited"
    /\ UNCHANGED <<log, sent, wmPos, rmPos, wmLoop, write_model, cur,
                   store_lock, phase, journal, replayPos, aggregates, probe, wm_readers>>

NextWrap ==
    \E target \in KeywordTargets, keyword \in WrapKeywords :
        \/ ApplyKeywordAddedWrapping(target, keyword)
        \/ ApplyKeywordAddedChecked(target, keyword)

WrapSpec == InitWrap /\ [][NextWrap]_vars

\* C30 (keyword ids are never reused): a step of the index keeps every
\* (keyword, id) pair it held, and the id of a pair it adds is not the id of
\* a pair it held.
C30_KeywordIdsNeverReused ==
    [][LET old == read_model.keywords.keyword_map.inner
           new == read_model'.keywords.keyword_map.inner
       IN  /\ old \subseteq new
           /\ \A q \in new \ old : get_by_right(old, q[2]) = {}]_vars


\* ---------------------------------------------------------------------
\* AddKeyword commands
\* ---------------------------------------------------------------------

\* Command::AddKeyword(keyword, target).
AddKeyword(keyword, target) ==
    [type |-> "AddKeyword", info |-> [keyword |-> keyword, target |-> target]]

\* The commands the match of accept has an arm for.
HandledCommands == {"AddBook", "AddAuthor", "AddReader", "AddReadBook"}

\* submit_command(AddKeyword(keyword, target)) by caller c: accept has no arm
\* that emits for this command, so nothing is persisted or sent and the
\* command is not accepted; the call and its answer are recorded.
SubmitKeyword(c, keyword, target) ==
    /\ phase = "serving"
    /\ cur[c].stage = "idle"
    /\ AddKeyword(keyword, target).type \notin HandledCommands
    /\ probe' = [call |-> "accept", command |-> AddKeyword(keyword, target),
                 accepted |-> FALSE]
    /\ UNCHANGED <<log, sent, wmPos, rmPos, wmLoop, rmLoop, write_model,
                   read_model, cur, store_lock, phase, journal, replayPos, aggregates,
                   wm_readers>>

SubmitKeywordSeq ==
    \E keyword \in Keywords, target \in KeywordTargets : SubmitKeyword("c1", keyword, target)

KeywordCommandSpec == Init /\ [][NextSeq \/ SubmitKeywordSeq]_vars

\* C24 (AddKeyword handling): an AddKeyword(keyword, target) command with a
\* valid keyword is accepted, and when accept has returned the event
\* KeywordAdded(target, keyword) is on the channel; once the ReadModel has
\* applied the channel, the keywords of target hold the keyword.
C24_AddKeywordHandled ==
    probe.call = "accept" =>
        LET keyword == probe.command.info.keyword
            target == probe.command.info.target
        IN  /\ probe.accepted
            /\ \E i \in DOMAIN sent : sent[i] = KeywordAdded(target, keyword)
            /\ (rmLoop = "running" /\ rmPos = Len(sent)) =>
                  \E id \in DOMAIN get_keywords(read_model.keywords, target) :
                      get_keywords(read_model.keywords, target)[id] = keyword


\* ---------------------------------------------------------------------
\* Termination
\* ---------------------------------------------------------------------

\* A loop can take the terminate.wait() branch only where its select! is
\* polled, at the top of an iteration.
AtSelect_anywhere(loop) == loop \in {"running", "received"}

AtSelect(loop) == loop = "running"

\* Termination::signal: one () is broadcast to the waiter of each loop (each
\* loop subscribed its own receiver when Application::start was called).
Signal ==
    /\ phase = "serving"
    /\ phase' = "stopping"
    /\ UNCHANGED <<log, sent, wmPos, rmPos, wmLoop, rmLoop, write_model,
                   read_model, cur, store_lock, journal, replayPos, aggregates, probe,
                   wm_readers>>

\* The poll() branch of the WriteModel loop's select! completes: the event is
\* received (Ok), or the receiver lagged (Err) and the loop breaks.
WMRecv ==
    /\ AtSelect(wmLoop)
    /\ HasNext(sent, wmPos)
    /\ IF Lagged(sent, wmPos)
       THEN /\ wmLoop' = "exited"
            /\ UNCHANGED wmPos
       ELSE /\ wmPos' = wmPos + 1
            /\ wmLoop' = "received"
    /\ UNCHANGED <<log, sent, rmPos, rmLoop, write_model, read_model, cur,
                   store_lock, phase, journal, replayPos, aggregates, probe, wm_readers>>

\* The body of the poll() branch: write_model.write().await.apply(event).
WMApply ==
    /\ wmLoop = "received"
    /\ wm_readers = {}
    /\ write_model' = WriteModelApply(write_model, sent[wmPos])
    /\ wmLoop' = "running"
    /\ UNCHANGED <<log, sent, wmPos, rmPos, rmLoop, read_model, cur,
                   store_lock, phase, journal, replayPos, aggregates, probe, wm_readers>>

\* The terminate.wait() branch of the WriteModel loop's select!: break.
WMTerminate ==
    /\ phase = "stopping"
    /\ AtSelect(wmLoop)
    /\ wmLoop' = "exited"
    /\ UNCHANGED <<log, sent, wmPos, rmPos, rmLoop, write_model, read_model,
                   cur, store_lock, phase, journal, replayPos, aggregates, probe,
                   wm_readers>>

\* The poll() branch of the ReadModel loop's select! completes.
RMRecv ==
    /\ AtSelect(rmLoop)
    /\ HasNext(sent, rmPos)
    /\ IF Lagged(sent, rmPos)
       THEN /\ rmLoop' = "exited"
            /\ UNCHANGED rmPos
       ELSE /\ rmPos' = rmPos + 1
            /\ rmLoop' = "received"
    /\ UNCHANGED <<log, sent, wmPos, wmLoop, write_model, read_model, cur,
                   store_lock, phase, journal, replayPos, aggregates, probe, wm_readers>>

\* The body of the poll() branch: read_model.write().await.apply(event).
RMApply ==
    /\ rmLoop = "received"
    /\ IndexReaders = {}
    /\ read_model' = IndexSetApply(read_model, sent[rmPos])
    /\ rmLoop' = "running"
    /\ UNCHANGED <<log, sent, wmPos, rmPos, wmLoop, write_model, cur,
                   store_lock, phase, journal, replayPos, aggregates, probe, wm_readers>>

\* The termination.wait() branch of the ReadModel loop's select!: break.
RMTerminate ==
    /\ phase = "stopping"
    /\ AtSelect(rmLoop)
    /\ rmLoop' = "exited"
    /\ UNCHANGED <<log, sent, wmPos, rmPos, wmLoop, write_model, read_model,
                   cur, store_lock, phase, journal, replayPos, aggregates, probe,
                   wm_readers>>

NextTerm ==
    \/ StartBegin
    \/ ReplayStep
    \/ StartEnd
    \/ SubmitSeq
    \/ PersistSeq
    \/ BroadcastSeq
    \/ Signal
    \/ WMRecv
    \/ WMApply
    \/ WMTerminate
    \/ RMRecv
    \/ RMApply
    \/ RMTerminate

\* Each loop is a spawned task that tokio polls whenever it is woken, and
\* select! picks among its ready branches at random.
TermSpec ==
    /\ InitLive
    /\ [][NextTerm]_vars
    /\ WF_vars(WMRecv) /\ WF_vars(WMApply) /\ WF_vars(WMTerminate)
    /\ WF_vars(RMRecv) /\ WF_vars(RMApply) /\ WF_vars(RMTerminate)

\* C23 (shutdown): after Termination.signal() both apply loops eventually
\* exit, and a loop that has exited has applied every event it received.
C23_Shutdown ==
    /\ (phase = "stopping") ~> (wmLoop = "exited" /\ rmLoop = "exited")
    /\ [](wmLoop = "exited" =>
            write_model = FoldWriteModel(WriteModelDefault, SubSeq(sent, 1, wmPos)))
    /\ [](rmLoop = "exited" =>
            read_model = FoldIndexSet(IndexSetDefault, SubSeq(sent, 1, rmPos)))

\* Both loops received events and have exited after the signal.
C23_Witness ==
    /\ phase = "stopping"
    /\ wmLoop = "exited"
    /\ rmLoop = "exited"
    /\ wmPos = MaxEvents
    /\ rmPos = MaxEvents


\* ---------------------------------------------------------------------
\* The read guard of accept
\* ---------------------------------------------------------------------

\* The commands whose arm of accept reads the WriteModel.
ValidatedCommands == {cmd \in Commands : cmd.type # "AddAuthor"}

\* The guard of write_model.read().await is a temporary of the `if`
\* condition: it is dropped when the condition has been evaluated.
ReleaseRead_kept(readers, c) == readers

ReleaseRead(readers, c) == readers \ {c}

\* accept, the condition of the `if`: the read guard is taken (no writer
\* holds the lock between the steps of the WriteModel loop) and the test is
\* evaluated on the WriteModel under it.
AcceptRead(c, cmd) ==
    /\ phase = "serving"
    /\ cur[c].stage = "idle"
    /\ Valid(write_model, cmd) =>
          Len(log) + Cardinality({d \in Callers : /\ cur[d].stage \in {"reading", "validated"}
                                                  /\ cur[d].event # NoEvent}) < MaxEvents
    /\ wm_readers' = wm_readers \cup {c}
    /\ cur' = [cur EXCEPT ![c] = [stage |-> "reading",
                                  event |-> IF Valid(write_model, cmd)
                                            THEN EventOf(cmd, FreshId)
                                            ELSE NoEvent]]
    /\ UNCHANGED <<log, sent, wmPos, rmPos, wmLoop, rmLoop, write_model,
                   read_model, store_lock, phase, journal, replayPos, aggregates,
                   probe>>

\* accept, the end of the condition: the guard is dropped; a failed test
\* returns false, a passed one goes on to mint the id and call emit.
AcceptRelease(c) ==
    /\ cur[c].stage = "reading"
    /\ wm_readers' = ReleaseRead(wm_readers, c)
    /\ cur' = [cur EXCEPT ![c] = IF cur[c].event = NoEvent
                                 THEN Idle
                                 ELSE [stage |-> "validated", event |-> cur[c].event]]
    /\ UNCHANGED <<log, sent, wmPos, rmPos, wmLoop, rmLoop, write_model,
                   read_model, store_lock, phase, journal, replayPos, aggregates,
                   probe>>

SubmitRead == \E c \in Callers, cmd \in ValidatedCommands : AcceptRead(c, cmd)
SubmitRelease == \E c \in Callers : AcceptRelease(c)
SubmitAuthor == \E c \in Callers : Accept(c, AddAuthor)

NextLock ==
    \/ StartBegin
    \/ ReplayStep
    \/ StartEnd
    \/ SubmitRead
    \/ SubmitRelease
    \/ SubmitAuthor
    \/ Persist
    \/ Broadcast
    \/ WMPoll
    \/ RMPoll

LockSpec == InitLive /\ [][NextLock]_vars

\* C28 (validation lock discipline): a caller that holds a read guard of the
\* WriteModel is neither waiting for the store mutex nor holding it, and the
\* WriteModel is not written while a caller holds a read guard.
C28_ValidationLockDiscipline ==
    /\ [](\A c \in wm_readers : cur[c].stage \notin {"validated", "persisted"}
                                /\ store_lock # c)
    /\ [][wm_readers # {} => write_model' = write_model]_vars

\* One caller has released its read guard and holds the store mutex inside
\* emit while another caller holds a read guard.
C28_Witness ==
    /\ cur["c1"].stage = "persisted"
    /\ store_lock = "c1"
    /\ "c1" \notin wm_readers
    /\ "c2" \in wm_readers


\* ---------------------------------------------------------------------
\* The keyword index under add and remove calls
\* ---------------------------------------------------------------------

\* HashMap::remove
RemoveKey(f, k) == [x \in DOMAIN f \ {k} |-> f[x]]

\* Index::remove_keyword_from_target
remove_keyword_from_target_single(ix, keyword, target) ==
    LET ids == get_by_left(ix.keyword_map.inner, keyword)
        id == CHOOSE i \in ids : TRUE
    IN  IF ids = {} \/ id \notin DOMAIN ix.keyword_targets THEN ix
        ELSE [ix EXCEPT !.keyword_targets[id] = @ \ {target},
                        !.target_keywords =
                            IF target \in DOMAIN @
                            THEN [@ EXCEPT ![target] = @ \ {id}]
                            ELSE @]

remove_keyword_from_target(ix, keyword, target) ==
    LET ids == get_by_left(ix.keyword_map.inner, keyword)
        id == CHOOSE i \in ids : TRUE
    IN  IF ids = {} \/ id \notin DOMAIN ix.keyword_targets THEN ix
        ELSE [ix EXCEPT !.keyword_targets[id] = @ \ {target},
                        !.target_keywords = RemoveKey(@, target)]

\* A call of remove_keyword_from_target on the index of the ReadModel.
RemoveKeyword(target, keyword) ==
    /\ read_model' = [read_model EXCEPT
                        !.keywords = remove_keyword_from_target(@, keyword, target)]
    /\ UNCHANGED <<log, sent, wmPos, rmPos, wmLoop, rmLoop, write_model, cur,
                   store_lock, phase, journal, replayPos, aggregates, probe, wm_readers>>

\* The targets that are tagged and untagged.
IndexTargets == {KeywordTarget("Book", 1), KeywordTarget("Author", 1)}

NextKeywordIndex ==
    \E target \in IndexTargets, keyword \in Keywords :
        \/ ApplyKeywordAdded(target, keyword)
        \/ RemoveKeyword(target, keyword)

KeywordIndexSpec == Init /\ [][NextKeywordIndex]_vars

\* The keywords get_keywords returns for the target.
KeywordsOf(ix, target) ==
    {get_keywords(ix, target)[id] : id \in DOMAIN get_keywords(ix, target)}

\* C31 (removal drops the whole keyword set of the target): from any keyword
\* index, remove_keyword_from_target(k, t) with k a known keyword takes t out
\* of the targets of k and leaves t without any keyword, the keyword map, the
\* other targets' keywords and the other keywords' targets being kept; with
\* k unknown the index is unchanged.
C31_RemoveDropsTargetSet ==
    \A t \in KeywordTargets, k \in Keywords :
        LET ix == read_model.keywords
            after == remove_keyword_from_target(ix, k, t)
        IN  IF get_by_left(ix.keyword_map.inner, k) = {}
            THEN after = ix
            ELSE /\ t \notin get_targets_of_keyword(after, k)
                 /\ t \notin DOMAIN after.target_keywords
                 /\ KeywordsOf(after, t) = {}
                 /\ after.keyword_map = ix.keyword_map
                 /\ \A other \in KeywordTargets \ {t} :
                       /\ KeywordsOf(after, other) = KeywordsOf(ix, other)
                       /\ other \in get_targets_of_keyword(after, k)
                             <=> other \in get_targets_of_keyword(ix, k)
                 /\ \A j \in Keywords \ {k} :
                       get_targets_of_keyword(after, j) = get_targets_of_keyword(ix, j)

\* A removal has acted on a target that carried two keywords: the target has
\* no keyword set, one keyword has lost it, the other still lists it.
C31_Witness ==
    LET ix == read_model.keywords
        t == KeywordTarget("Book", 1)
    IN  /\ t \notin DOMAIN ix.target_keywords
        /\ get_by_left(ix.keyword_map.inner, "k1") # {}
        /\ t \notin get_targets_of_keyword(ix, "k1")
        /\ t \in get_targets_of_keyword(ix, "k2")

\* C40 (keyword cross-index symmetry): in every keyword index reached by add
\* and remove calls, k is among the keywords of t exactly when t is among the
\* targets of k, and every id of a target's set resolves to a keyword.
C40_CrossIndexSymmetry ==
    \A t \in KeywordTargets :
        /\ "panic" \notin KeywordsOf(read_model.keywords, t)
        /\ \A k \in Keywords :
              k \in KeywordsOf(read_model.keywords, t)
                  <=> t \in get_targets_of_keyword(read_model.keywords, k)


\* ---------------------------------------------------------------------
\* AddReadBook
\* ---------------------------------------------------------------------

ReadBookCommands == {cmd \in Commands : cmd.type = "AddReadBook"}

\* The (reader, book) pairs of WriteModel.books_read.
BooksReadPairs(w) ==
    {<<r, b>> \in ReaderInputs \X BookInputs :
        r \in DOMAIN w.books_read /\ b \in w.books_read[r]}

\* C32 (AddReadBook checks idempotence only): an AddReadBook(r, b) command
\* passes validation exactly when (r, b) is not in WriteModel.books_read,
\* whatever readers and books exist, and an accepted one holds the event
\* BookRead(r, info) for emit.
C32_ReadBookIdempotenceOnly ==
    /\ [](\A cmd \in ReadBookCommands :
            Valid(write_model, cmd)
                <=> <<cmd.info.reader_id, cmd.info.book_id>> \notin BooksReadPairs(write_model))
    /\ [][\A c \in Callers, cmd \in ReadBookCommands :
            (Accept(c, cmd)
             /\ <<cmd.info.reader_id, cmd.info.book_id>> \notin BooksReadPairs(write_model))
                => cur'[c] = [stage |-> "validated",
                              event |-> Event("BookRead", cmd.info.reader_id, cmd.info)]]_vars

\* A BookRead record is the only record of the log: it was emitted while no
\* reader and no book existed.
C32_Witness ==
    /\ Len(log) = 1
    /\ log[1].what = "book-read"
    /\ Len(sent) = 1
    /\ sent[1].type = "BookRead"


\* ---------------------------------------------------------------------
\* A persist that fails
\* ---------------------------------------------------------------------

\* Where EventArchiveInner::insert returns its error: at batch.commit(),
\* before anything is written, or at keyspace.persist(SyncAll), after the
\* batch has been committed.
InsertFailures == {"commit", "sync"}

\* EventBus::emit when persist returns Err: `?` returns the error and drops the
\* store guard, nothing is sent, and expect("emit") in accept panics, which
\* ends the caller's task without a return value.
EmitPersistFail(c) ==
    /\ cur[c].stage = "validated"
    /\ MutexFree(store_lock)
    /\ \E failure \in InsertFailures, event_id \in EventIds \ UsedEventIds :
          LET event == external_representation(cur[c].event, event_id)
          IN  IF failure = "sync"
              THEN /\ log' = insert(log, event)
                   /\ aggregates' = insert_aggregates(aggregates, event)
              ELSE UNCHANGED <<log, aggregates>>
    /\ cur' = [cur EXCEPT ![c] = [stage |-> "panicked", event |-> NoEvent]]
    /\ UNCHANGED <<sent, wmPos, rmPos, wmLoop, rmLoop, write_model, read_model,
                   store_lock, phase, journal, replayPos, probe, wm_readers>>

PersistFail == \E c \in Callers : EmitPersistFail(c)

PersistFailSpec == Init /\ [][Next \/ PersistFail]_vars

\* C33 (persist failure): when persist fails inside submit_command the
\* caller is answered with a rejection, nothing is broadcast, the log does
\* not hold the event and both models are unchanged.
C33_PersistFailureRejects ==
    [][\A c \in Callers :
          EmitPersistFail(c) =>
              /\ cur'[c] = Idle
              /\ sent' = sent
              /\ log' = log
              /\ write_model' = write_model
              /\ read_model' = read_model]_vars


\* ---------------------------------------------------------------------
\* load_aggregate
\* ---------------------------------------------------------------------

\* The aggregate roots with a try_load, and the event each expects first.
Roots == {"Author", "Book"}
RootEvent(root) == IF root = "Author" THEN "AuthorAdded" ELSE "BookAdded"

Failed(error) == [error |-> error, root |-> {}]

\* AggregateStream::peek followed by the `if let` of try_load.
try_load(root, stream) ==
    IF stream = <<>> THEN Failed("Generic")
    ELSE LET event == from_external_representation(stream[1])
         IN  IF IsError(event) THEN Failed("UnknownEventType")
             ELSE IF event.type = RootEvent(root)
             THEN [error |-> "none", root |-> {[id |-> event.id, info |-> event.info]}]
             ELSE Failed("AggregateParseError")

\* EventStore::load_aggregate on the store.
load_aggregate(root, id) ==
    LET stream == find_aggregate_events(log, aggregates, id)
    IN  IF stream = CorruptIndex THEN Failed("panic") ELSE try_load(root, stream)

\* C34 (load_aggregate error kinds): load_aggregate(id) fails with
\* AggregateParseError when the stream of the aggregate is empty and when its
\* first event is not the *Added event of the root, and returns the root of
\* the first event when it is.
C34_LoadAggregateErrors ==
    \A root \in Roots, id \in AggregateIds :
        LET stream == find_aggregate_events(log, aggregates, id)
            first == from_external_representation(stream[1])
        IN  IF stream = <<>>
            THEN load_aggregate(root, id) = Failed("AggregateParseError")
            ELSE IF first.type = RootEvent(root)
            THEN load_aggregate(root, id)
                     = [error |-> "none", root |-> {[id |-> first.id, info |-> first.info]}]
            ELSE load_aggregate(root, id) = Failed("AggregateParseError")


\* ---------------------------------------------------------------------
\* The boundary between replay and live events
\* ---------------------------------------------------------------------

\* The events that were sent or stored.
KnownEvents == {sent[i] : i \in DOMAIN sent} \cup {LogEvents[i] : i \in DOMAIN log}

StoredEvent(i) ==
    {Event("AuthorAdded", i, AuthorInfo)}
    \cup {Event("ReaderAdded", i, ReaderInfo(m)) : m \in Monikers}

\* The stores of n records.
RECURSIVE Stores(_)
Stores(n) ==
    IF n = 0 THEN {<<>>}
    ELSE {Append(l, external_representation(e, n)) : l \in Stores(n - 1), e \in StoredEvent(n)}

\* A process started on a store of up to ChannelCapacity + 1 records.
InitLong ==
    /\ wm_readers = {}
    /\ log \in UNION {Stores(n) : n \in 0..(ChannelCapacity + 1)}
    /\ sent = <<>>
    /\ wmPos = 0
    /\ rmPos = 0
    /\ wmLoop = "none"
    /\ rmLoop = "none"
    /\ write_model = WriteModelDefault
    /\ read_model = IndexSetDefault
    /\ cur = [c \in Callers |-> Idle]
    /\ store_lock = "free"
    /\ phase = "new"
    /\ journal = <<>>
    /\ replayPos = 0
    /\ aggregates = [a \in 1..Len(log) |-> a]
    /\ probe = NoProbe

\* Start and the two loops, with no command submitted.
NextReplay ==
    \/ StartBegin
    \/ ReplayStep
    \/ StartEnd
    \/ WMPoll
    \/ RMPoll

LongJournalSpec == InitLong /\ [][NextReplay]_vars /\ WF_vars(WMPoll) /\ WF_vars(RMPoll)

\* The ids of the AuthorAdded records of the journal that was replayed.
JournalAuthors ==
    {journal[i].aggregate_id : i \in {j \in DOMAIN journal : journal[j].what = "author-added"}}

\* C36 (replay of any length is applied in full): after start, the WriteModel
\* loop applies the whole journal, also one with more records than the
\* channel holds: author_ids comes to hold the id of every AuthorAdded record
\* of the journal.
C36_LongReplayApplied ==
    (phase = "serving") ~> (JournalAuthors \subseteq write_model.author_ids)


\* ---------------------------------------------------------------------
\* Locks held and locks waited for
\* ---------------------------------------------------------------------

\* QueryHandler::issue takes the read guard of read_model (no writer holds the
\* lock between the steps of the ReadModel loop) ...
QueryBegin(c) ==
    /\ phase = "serving"
    /\ cur[c].stage = "idle"
    /\ cur' = [cur EXCEPT ![c] = [stage |-> "querying", event |-> NoEvent]]
    /\ UNCHANGED <<log, sent, wmPos, rmPos, wmLoop, rmLoop, write_model,
                   read_model, store_lock, phase, journal, replayPos, aggregates,
                   probe, wm_readers>>

\* ... executes the query and drops the guard when it returns.
QueryEnd(c) ==
    /\ cur[c].stage = "querying"
    /\ cur' = [cur EXCEPT ![c] = Idle]
    /\ UNCHANGED <<log, sent, wmPos, rmPos, wmLoop, rmLoop, write_model,
                   read_model, store_lock, phase, journal, replayPos, aggregates,
                   probe, wm_readers>>

Query == \E c \in Callers : QueryBegin(c) \/ QueryEnd(c)

\* The callers register readers under one moniker: one command that accept
\* validates under the read guard.
SubmitReader == \E c \in Callers : AcceptRead(c, AddReader("m1"))

NextTasks ==
    \/ StartBegin
    \/ ReplayStep
    \/ StartEnd
    \/ SubmitReader
    \/ SubmitRelease
    \/ Persist
    \/ Broadcast
    \/ Query
    \/ WMRecv
    \/ WMApply
    \/ RMRecv
    \/ RMApply

TaskSpec == InitLive /\ [][NextTasks]_vars

\* The tasks: the callers, the two apply loops, and replay_journal.
Tasks == Callers \cup {"wm", "rm", "replay"}

\* A variant in which accept keeps its read guard until emit has returned and
\* the WriteModel loop applies an event under the store mutex.
Holds_nested(t) ==
    CASE t \in Callers ->
           IF cur[t].stage \in {"reading", "validated", "persisted"}
           THEN {"write_model"} ELSE {}
      [] t = "wm" -> IF wmLoop = "received" THEN {"event_store"} ELSE {}
      [] OTHER -> {}

\* The locks a task holds: a caller the read guard of the WriteModel in the
\* condition of accept, the store mutex inside emit, the read guard of the
\* IndexSet inside issue; a loop the mutex of its subscription while it is in
\* poll; replay_journal the store mutex.
Holds(t) ==
    CASE t \in Callers ->
           (IF t \in wm_readers THEN {"write_model"} ELSE {})
           \cup (IF store_lock = t THEN {"event_store"} ELSE {})
           \cup (IF t \in IndexReaders THEN {"read_model"} ELSE {})
      [] t = "wm" -> IF wmLoop = "running" THEN {"wm_rx"} ELSE {}
      [] t = "rm" -> IF rmLoop = "running" THEN {"rm_rx"} ELSE {}
      [] t = "replay" -> IF store_lock = "replay" THEN {"event_store"} ELSE {}

\* The locks a task is about to take: a caller the store mutex at the top of
\* emit, a loop the write guard of its model once poll has returned an event,
\* replay_journal the store mutex.
Wants(t) ==
    CASE t \in Callers -> IF cur[t].stage = "validated" THEN {"event_store"} ELSE {}
      [] t = "wm" -> IF wmLoop = "received" THEN {"write_model"} ELSE {}
      [] t = "rm" -> IF rmLoop = "received" THEN {"read_model"} ELSE {}
      [] t = "replay" -> IF phase = "new" THEN {"event_store"} ELSE {}

\* The tasks that hold a lock t waits for.
WaitsOn(t) == {u \in Tasks \ {t} : Wants(t) \cap Holds(u) # {}}

\* C37 (deadlock freedom): in no reachable state is there a set of tasks each
\* of which waits for a lock that another task of the set holds.
C37_DeadlockFree ==
    \A S \in SUBSET Tasks : S # {} => \E t \in S : WaitsOn(t) \cap S = {}

\* Both loops wait for the write guard of their model, the one behind a caller
\* that validates a command, the other behind a caller that runs a query.
C37_Witness ==
    /\ WaitsOn("wm") = {"c1"}
    /\ WaitsOn("rm") = {"c2"}


\* ---------------------------------------------------------------------
\* Referential integrity of the IndexSet
\* ---------------------------------------------------------------------

\* C38 (read-model referential integrity): in every IndexSet a query can
\* observe while the log of the dispatcher is applied in order, every book
\* has its author in `authors`, every id in an author's list is a book of
\* that author, and every book is in the list of its author exactly once.
C38_ReferentialIntegrity ==
    /\ \A b \in DOMAIN read_model.books : AuthorByBookId(read_model, b) # {}
    /\ \A a \in DOMAIN read_model.books_by_author_id :
          \A i \in DOMAIN read_model.books_by_author_id[a] :
              LET b == read_model.books_by_author_id[a][i]
              IN  b \in DOMAIN read_model.books /\ read_model.books[b].author = a
    /\ \A b \in DOMAIN read_model.books :
          Count(BooksByAuthorId(read_model, read_model.books[b].author), b) = 1

\* The ReadModel holds a book, and its author with the book in the list.
C38_Witness ==
    /\ DOMAIN read_model.books # {}
    /\ \E a \in DOMAIN read_model.authors : BooksByAuthorId(read_model, a) # <<>>


\* ---------------------------------------------------------------------
\* BooksByReader over reading records
\* ---------------------------------------------------------------------

ReadingReaders == {1, 2}
ReadingBooks == {1, 2, 3}

\* IndexSet::apply on a BookRead event.
ApplyBookRead(reader, book, when) ==
    /\ read_model' = IndexSetApply(read_model,
            Event("BookRead", reader, BookReadInfo(reader, book, when)))
    /\ UNCHANGED <<log, sent, wmPos, rmPos, wmLoop, rmLoop, write_model, cur,
                   store_lock, phase, journal, replayPos, aggregates, probe, wm_readers>>

NextReading ==
    \/ \E id \in ReadingBooks \ {3} : ApplyBookAdded(id, <<"9", "-", "0">>, <<"T", "o">>, 1)
    \/ \E reader \in ReadingReaders, book \in ReadingBooks, when \in Whens :
          ApplyBookRead(reader, book, when)

ReadingSpec == Init /\ [][NextReading]_vars

\* The reading records of a reader.
ReadingRecords(reader) ==
    IF reader \in DOMAIN read_model.books_by_reader_id
    THEN read_model.books_by_reader_id[reader]
    ELSE {}

\* C39 (BooksByReader is all or nothing): BooksByReader(r) returns one book
\* for each reading record of r when the book of every record is in `books`,
\* and nothing when the book of one record is not, whatever the other records
\* of r resolve to.
C39_BooksByReaderAllOrNothing ==
    \A reader \in ReadingReaders :
        LET records == ReadingRecords(reader)
            result == BooksByReader(read_model, reader)
        IN  /\ (\A x \in records : x.book_id \in DOMAIN read_model.books)
                  => /\ Cardinality(result) = Cardinality(records)
                     /\ {x.book_id : x \in result} = {x.book_id : x \in records}
            /\ (\E x \in records : x.book_id \notin DOMAIN read_model.books)
                  => result = {}

\* A reader has a record of a book that is in `books` and a record of a book
\* that is not, and the query returns nothing; another reader's records all
\* resolve and the query returns them.
C39_Witness ==
    /\ \E x, y \in ReadingRecords(1) :
          x.book_id \in DOMAIN read_model.books /\ y.book_id \notin DOMAIN read_model.books
    /\ BooksByReader(read_model, 1) = {}
    /\ Cardinality(BooksByReader(read_model, 2)) = 2

====
